---- MODULE Spec2Model ----
(***************************************************************************)
(* Pulse Check API: the dead man's switch of routes/monitors.py, timer.py, *)
(* alerts.py and database.py, and its twin in one file, main.py.           *)
(*                                                                         *)
(* The handlers that write (create_monitor, heartbeat, pause_monitor) are  *)
(* coroutines without any await, so the asyncio event loop runs each of    *)
(* them as one atomic step.  A handler is an operator X_result that yields *)
(* the response and the store it leaves behind, and an action X that       *)
(* installs that store; a rejected request leaves every variable as it     *)
(* was.                                                                    *)
(*                                                                         *)
(* The handlers that read (list_monitors, get_monitor,                     *)
(* get_monitor_history) are plain functions, which run on worker threads   *)
(* beside the event loop.  They change nothing, so their actions leave     *)
(* every variable as it is; what a read can return while a heartbeat runs  *)
(* is given by the operators X_views over the values the record takes,     *)
(* assignment after assignment (heartbeat_writes).                         *)
(*                                                                         *)
(* The countdown coroutine start_countdown has one suspension point (await *)
(* asyncio.sleep), so a countdown task is modelled by its position:        *)
(*   "sleeping"  created, suspended in await asyncio.sleep(timeout)        *)
(*   "woken"     the sleep has elapsed, the task's wake-up is scheduled    *)
(*   "done"      the coroutine has returned (or the task was cancelled)    *)
(* and by the flag cancel, set by Task.cancel(): the next step of a task   *)
(* with cancel set raises CancelledError at its await.  A task is created  *)
(* suspended: the sleep may end at any time from its deadline on, so the   *)
(* delay between create_task and the coroutine's first step adds no        *)
(* behaviour.                                                              *)
(***************************************************************************)
EXTENDS Integers, Sequences, FiniteSets, TLC

VARIABLES
  monitors_db,   \* database.monitors_db: device id -> monitor record
  active_tasks,  \* database.active_tasks: device id -> stored countdown task
  tasks,         \* the countdown tasks ever created, in order of creation
  alerts,        \* the calls of fire_alert, in order
  now,           \* the clock
  accepted       \* device id -> number of heartbeats answered 200

vars == <<monitors_db, active_tasks, tasks, alerts, now, accepted>>

(* ---------------------------------------------------------------- bounds *)
MaxTime == 2
MaxTasks == 3

(* ---------------------------------------------------------------- inputs *)
Devices == {"d1", "d2"}

Bodies == {[timeout |-> -1, alert_email |-> "b@x.com"],
           [timeout |-> 0, alert_email |-> "a@x.com"],
           [timeout |-> 1, alert_email |-> "a@x.com"],
           [timeout |-> 2, alert_email |-> "b@x.com"]}

(* None of last_heartbeat; timestamps are the naturals 0..MaxTime *)
None == -1

EmptyMap == [x \in {} |-> 0]

(* the HTTP status code and the status of the body (or the kind of error) *)
Response(code, detail) == [code |-> code, detail |-> detail]

(* raise HTTPException: the response, and the store as it was *)
Rejected(code, detail) ==
  [resp |-> Response(code, detail),
   monitors_db |-> monitors_db, active_tasks |-> active_tasks, tasks |-> tasks]

(* ------------------------------------------------------- asyncio tasks *)
(* a countdown that keeps running from the registration instead of starting
   afresh *)
NewTask_fromCreation(device_id, timeout) ==
  [device_id |-> device_id, timeout |-> timeout, pc |-> "sleeping",
   cancel |-> FALSE,
   deadline |-> IF device_id \in DOMAIN monitors_db
                THEN monitors_db[device_id].created_at + timeout
                ELSE now + timeout]

(* asyncio.create_task(start_countdown(device_id, timeout)) *)
NewTask(device_id, timeout) ==
  [device_id |-> device_id, timeout |-> timeout, pc |-> "sleeping",
   cancel |-> FALSE, deadline |-> now + timeout]

(* a finished task: no pending cancellation, no timer *)
Finished(task) == [task EXCEPT !.pc = "done", !.cancel = FALSE, !.deadline = 0]

(* a cancel() that never reaches the task *)
CancelTask_noop(ts, tid) == ts

(* a cancel() that withdraws a request for cancellation made before *)
CancelTask_toggle(ts, tid) ==
  IF ts[tid].pc = "done" THEN ts
  ELSE [ts EXCEPT ![tid].cancel = ~@]

(* a cancel() that is lost once the sleep has elapsed *)
CancelTask_lateLost(ts, tid) ==
  IF ts[tid].pc # "sleeping" THEN ts
  ELSE [ts EXCEPT ![tid].cancel = TRUE]

(* Task.cancel(): a no-op on a finished task, otherwise a request that the
   task's next step delivers as CancelledError *)
CancelTask(ts, tid) ==
  IF ts[tid].pc = "done" THEN ts
  ELSE [ts EXCEPT ![tid].cancel = TRUE]

(* a countdown that is neither cancelled nor completed *)
Live(t) == tasks[t].pc # "done" /\ ~tasks[t].cancel

LiveTasks(d) == {t \in 1..Len(tasks) : tasks[t].device_id = d /\ Live(t)}

(* ------------------------------------------------------------ handlers *)
(* a record that counts the registration as a first heartbeat *)
NewMonitor_beaten(id, timeout, alert_email) ==
  [id |-> id, timeout |-> timeout, alert_email |-> alert_email,
   status |-> "active", created_at |-> now, last_heartbeat |-> now,
   heartbeat_history |-> <<>>]

(* the record that a registration stores *)
NewMonitor(id, timeout, alert_email) ==
  [id |-> id, timeout |-> timeout, alert_email |-> alert_email,
   status |-> "active", created_at |-> now, last_heartbeat |-> None,
   heartbeat_history |-> <<>>]

(* the store after a registration *)
Registered(id, timeout, alert_email) ==
  [resp |-> Response(201, "active"),
   monitors_db |-> (id :> NewMonitor(id, timeout, alert_email)) @@ monitors_db,
   tasks |-> Append(tasks, NewTask(id, timeout)),
   active_tasks |-> (id :> Len(tasks) + 1) @@ active_tasks]

(* a registration that overwrites an existing record *)
create_monitor_upsert(id, timeout, alert_email) ==
  IF timeout <= 0
  THEN Rejected(400, "InvalidTimeout")
  ELSE Registered(id, timeout, alert_email)

(* a registration that takes any timeout *)
create_monitor_anytimeout(id, timeout, alert_email) ==
  IF id \in DOMAIN monitors_db
  THEN Rejected(400, "DuplicateId")
  ELSE Registered(id, timeout, alert_email)

(* POST /monitors *)
create_monitor_result(id, timeout, alert_email) ==
  IF id \in DOMAIN monitors_db
  THEN Rejected(400, "DuplicateId")
  ELSE IF timeout <= 0
  THEN Rejected(400, "InvalidTimeout")
  ELSE Registered(id, timeout, alert_email)

create_monitor(id, timeout, alert_email) ==
  LET r == create_monitor_result(id, timeout, alert_email) IN
  /\ Len(r.tasks) <= MaxTasks
  /\ monitors_db' = r.monitors_db
  /\ active_tasks' = r.active_tasks
  /\ tasks' = r.tasks
  /\ UNCHANGED <<alerts, now, accepted>>

HistoryRecord(received_at, timeout) ==
  [received_at |-> received_at, event |-> "heartbeat", timer_reset_to |-> timeout]

(* a heartbeat that takes the time of registration for the time of the
   last heartbeat *)
Beat_touch(monitor) ==
  [monitor EXCEPT !.status = "active",
                  !.last_heartbeat = now,
                  !.created_at = now,
                  !.heartbeat_history =
                     Append(@, HistoryRecord(now, monitor.timeout))]

(* a heartbeat that is logged but does not set last_heartbeat *)
Beat_nostamp(monitor) ==
  [monitor EXCEPT !.status = "active",
                  !.heartbeat_history =
                     Append(@, HistoryRecord(now, monitor.timeout))]

(* a resume that starts the history afresh *)
Beat_reset(monitor) ==
  [monitor EXCEPT !.status = "active",
                  !.last_heartbeat = now,
                  !.heartbeat_history =
                     IF monitor.status = "paused"
                     THEN <<HistoryRecord(now, monitor.timeout)>>
                     ELSE Append(@, HistoryRecord(now, monitor.timeout))]

(* the record after an accepted heartbeat *)
Beat(monitor) ==
  [monitor EXCEPT !.status = "active",
                  !.last_heartbeat = now,
                  !.heartbeat_history =
                     Append(@, HistoryRecord(now, monitor.timeout))]

(* the values the record of a monitor takes, one assignment after the other,
   while a heartbeat that is accepted runs: as found, resumed if it was
   paused, last_heartbeat set, status set, history record appended *)
heartbeat_writes(monitor) ==
  LET m1 == IF monitor.status = "paused"
            THEN [monitor EXCEPT !.status = "active"] ELSE monitor
      m2 == [m1 EXCEPT !.last_heartbeat = now]
      m3 == [m2 EXCEPT !.status = "active"]
      m4 == [m3 EXCEPT !.heartbeat_history =
                         Append(@, HistoryRecord(now, monitor.timeout))]
  IN <<monitor, m1, m2, m3, m4>>

(* every countdown that runs is cancelled, whatever its device *)
CancelStored_all(device_id) ==
  [t \in 1..Len(tasks) |->
     IF tasks[t].pc = "done" THEN tasks[t] ELSE [tasks[t] EXCEPT !.cancel = TRUE]]

(* the stored countdown is left running *)
CancelStored_skip(device_id) == tasks

(* if device_id in active_tasks: active_tasks[device_id].cancel() *)
CancelStored(device_id) ==
  IF device_id \in DOMAIN active_tasks
  THEN CancelTask(tasks, active_tasks[device_id])
  ELSE tasks

(* the handlers without their check for a down monitor *)
IsDown_never(monitor) == FALSE

(* if monitor["status"] == "down": raise HTTPException(400) *)
IsDown(monitor) == monitor.status = "down"

(* a heartbeat that re-arms the countdown before it looks at the status *)
heartbeat_rearm_first(device_id) ==
  IF device_id \notin DOMAIN monitors_db
  THEN Rejected(404, "NotFound")
  ELSE [resp |-> IF IsDown(monitors_db[device_id])
                 THEN Response(400, "AlreadyDown")
                 ELSE Response(200, "active"),
        tasks |-> Append(CancelStored(device_id),
                         NewTask(device_id, monitors_db[device_id].timeout)),
        active_tasks |-> (device_id :> Len(tasks) + 1) @@ active_tasks,
        monitors_db |-> IF IsDown(monitors_db[device_id])
                        THEN monitors_db
                        ELSE [monitors_db EXCEPT ![device_id] = Beat(@)]]

(* a heartbeat that stores its new countdown before it cancels the stored
   one *)
heartbeat_store_first(device_id) ==
  IF device_id \notin DOMAIN monitors_db
  THEN Rejected(404, "NotFound")
  ELSE IF IsDown(monitors_db[device_id])
  THEN Rejected(400, "AlreadyDown")
  ELSE [resp |-> Response(200, "active"),
        tasks |-> CancelTask(Append(tasks,
                               NewTask(device_id, monitors_db[device_id].timeout)),
                             Len(tasks) + 1),
        active_tasks |-> (device_id :> Len(tasks) + 1) @@ active_tasks,
        monitors_db |-> [monitors_db EXCEPT ![device_id] = Beat(@)]]

(* POST /monitors/{device_id}/heartbeat *)
heartbeat_result(device_id) ==
  IF device_id \notin DOMAIN monitors_db
  THEN Rejected(404, "NotFound")
  ELSE IF IsDown(monitors_db[device_id])
  THEN Rejected(400, "AlreadyDown")
  ELSE [resp |-> Response(200, "active"),
        tasks |-> Append(CancelStored(device_id),
                         NewTask(device_id, monitors_db[device_id].timeout)),
        active_tasks |-> (device_id :> Len(tasks) + 1) @@ active_tasks,
        monitors_db |-> [monitors_db EXCEPT ![device_id] = Beat(@)]]

heartbeat(device_id) ==
  LET r == heartbeat_result(device_id) IN
  /\ Len(r.tasks) <= MaxTasks
  /\ monitors_db' = r.monitors_db
  /\ active_tasks' = r.active_tasks
  /\ tasks' = r.tasks
  /\ accepted' = IF r.resp.code = 200
                 THEN [accepted EXCEPT ![device_id] = @ + 1] ELSE accepted
  /\ UNCHANGED <<alerts, now>>

(* a pause that only sets the status *)
pause_monitor_nocancel(device_id) ==
  IF device_id \notin DOMAIN monitors_db
  THEN Rejected(404, "NotFound")
  ELSE IF IsDown(monitors_db[device_id])
  THEN Rejected(400, "CannotPauseDown")
  ELSE IF monitors_db[device_id].status = "paused"
  THEN Rejected(400, "AlreadyPaused")
  ELSE [resp |-> Response(200, "paused"),
        tasks |-> tasks,
        active_tasks |-> active_tasks,
        monitors_db |-> [monitors_db EXCEPT ![device_id].status = "paused"]]

(* a pause that looks at no status *)
pause_monitor_unchecked(device_id) ==
  IF device_id \notin DOMAIN monitors_db
  THEN Rejected(404, "NotFound")
  ELSE [resp |-> Response(200, "paused"),
        tasks |-> CancelStored(device_id),
        active_tasks |-> active_tasks,
        monitors_db |-> [monitors_db EXCEPT ![device_id].status = "paused"]]

(* a pause that writes itself into the history *)
pause_monitor_logged(device_id) ==
  IF device_id \notin DOMAIN monitors_db
  THEN Rejected(404, "NotFound")
  ELSE IF IsDown(monitors_db[device_id])
  THEN Rejected(400, "CannotPauseDown")
  ELSE IF monitors_db[device_id].status = "paused"
  THEN Rejected(400, "AlreadyPaused")
  ELSE [resp |-> Response(200, "paused"),
        tasks |-> CancelStored(device_id),
        active_tasks |-> active_tasks,
        monitors_db |->
          [monitors_db EXCEPT
             ![device_id].status = "paused",
             ![device_id].heartbeat_history =
                Append(@, [received_at |-> now, event |-> "pause",
                           timer_reset_to |-> 0])]]

(* a pause that is accepted again on a paused monitor *)
pause_monitor_again(device_id) ==
  IF device_id \notin DOMAIN monitors_db
  THEN Rejected(404, "NotFound")
  ELSE IF IsDown(monitors_db[device_id])
  THEN Rejected(400, "CannotPauseDown")
  ELSE [resp |-> Response(200, "paused"),
        tasks |-> CancelStored(device_id),
        active_tasks |-> active_tasks,
        monitors_db |-> [monitors_db EXCEPT ![device_id].status = "paused"]]

(* POST /monitors/{device_id}/pause *)
pause_monitor_result(device_id) ==
  IF device_id \notin DOMAIN monitors_db
  THEN Rejected(404, "NotFound")
  ELSE IF IsDown(monitors_db[device_id])
  THEN Rejected(400, "CannotPauseDown")
  ELSE IF monitors_db[device_id].status = "paused"
  THEN Rejected(400, "AlreadyPaused")
  ELSE [resp |-> Response(200, "paused"),
        tasks |-> CancelStored(device_id),
        active_tasks |-> active_tasks,
        monitors_db |-> [monitors_db EXCEPT ![device_id].status = "paused"]]

pause_monitor(device_id) ==
  LET r == pause_monitor_result(device_id) IN
  /\ monitors_db' = r.monitors_db
  /\ active_tasks' = r.active_tasks
  /\ tasks' = r.tasks
  /\ UNCHANGED <<alerts, now, accepted>>

(* GET /monitors/{device_id} *)
get_monitor_result(device_id) ==
  IF device_id \notin DOMAIN monitors_db
  THEN Rejected(404, "NotFound")
  ELSE [resp |-> [code |-> 200, body |-> monitors_db[device_id]],
        monitors_db |-> monitors_db, active_tasks |-> active_tasks,
        tasks |-> tasks]

get_monitor(device_id) ==
  LET r == get_monitor_result(device_id) IN
  /\ monitors_db' = r.monitors_db
  /\ active_tasks' = r.active_tasks
  /\ tasks' = r.tasks
  /\ UNCHANGED <<alerts, now, accepted>>

(* the body of GET /monitors/{device_id}/history *)
HistoryBody(device_id, monitor) ==
  LET history == monitor.heartbeat_history IN
  [device_id |-> device_id,
   status |-> monitor.status,
   total_heartbeats |-> Len(history),
   first_heartbeat |-> IF history # <<>> THEN history[1].received_at ELSE None,
   last_heartbeat |-> monitor.last_heartbeat,
   history |-> history]

(* GET /monitors/{device_id}/history is a plain function, which the framework
   runs on a worker thread beside the event loop: its reads of the record
   are separate steps, taken in the order of the source, and the history
   list it returns is encoded on the event loop afterwards.  These are the
   bodies it can return when its reads fall among the values ws that the
   record takes meanwhile. *)
get_monitor_history_views(device_id, ws) ==
  { [device_id |-> device_id,
     status |-> ws[i].status,
     total_heartbeats |-> Len(ws[j].heartbeat_history),
     first_heartbeat |-> IF ws[k].heartbeat_history # <<>>
                         THEN ws[k].heartbeat_history[1].received_at ELSE None,
     last_heartbeat |-> ws[l].last_heartbeat,
     history |-> ws[n].heartbeat_history] :
    <<i, j, k, l, n>> \in
      { q \in (1..Len(ws)) \X (1..Len(ws)) \X (1..Len(ws)) \X (1..Len(ws))
               \X {1, Len(ws)} :
          q[1] <= q[2] /\ q[2] <= q[3] /\ q[3] <= q[4] /\ q[4] <= q[5] } }

(* GET /monitors/{device_id} returns the record itself, which is encoded on
   the event loop: the body is the record as it is between two handlers *)
get_monitor_views(device_id, ws) == {ws[1], ws[Len(ws)]}

(* a history that answers for an id nobody registered *)
get_monitor_history_blank(device_id) ==
  [resp |-> [code |-> 200,
             body |-> IF device_id \in DOMAIN monitors_db
                      THEN HistoryBody(device_id, monitors_db[device_id])
                      ELSE [device_id |-> device_id, status |-> "active",
                            total_heartbeats |-> 0, first_heartbeat |-> None,
                            last_heartbeat |-> None, history |-> <<>>]],
   monitors_db |-> monitors_db, active_tasks |-> active_tasks, tasks |-> tasks]

(* GET /monitors/{device_id}/history *)
get_monitor_history_result(device_id) ==
  IF device_id \notin DOMAIN monitors_db
  THEN Rejected(404, "NotFound")
  ELSE [resp |-> [code |-> 200,
                  body |-> HistoryBody(device_id, monitors_db[device_id])],
        monitors_db |-> monitors_db, active_tasks |-> active_tasks,
        tasks |-> tasks]

get_monitor_history(device_id) ==
  LET r == get_monitor_history_result(device_id) IN
  /\ monitors_db' = r.monitors_db
  /\ active_tasks' = r.active_tasks
  /\ tasks' = r.tasks
  /\ UNCHANGED <<alerts, now, accepted>>

(* the first countdown of a device is the one of its registration *)
FirstTask(d) ==
  CHOOSE t \in 1..Len(tasks) :
    /\ tasks[t].device_id = d
    /\ \A u \in 1..Len(tasks) : tasks[u].device_id = d => t <= u

(* the keys of monitors_db in the order of a dict, which is the order of
   insertion *)
InsertionOrder ==
  CHOOSE s \in [1..Cardinality(DOMAIN monitors_db) -> DOMAIN monitors_db] :
    \A i, j \in 1..Cardinality(DOMAIN monitors_db) :
      i < j => FirstTask(s[i]) < FirstTask(s[j])

(* a listing that leaves out the monitors that are down *)
list_monitors_up ==
  LET up == {d \in DOMAIN monitors_db : monitors_db[d].status # "down"} IN
  [resp |-> [code |-> 200,
             body |-> [monitors |-> [i \in 1..Len(InsertionOrder) |->
                                       monitors_db[InsertionOrder[i]]],
                       total |-> Cardinality(up)]],
   monitors_db |-> monitors_db, active_tasks |-> active_tasks, tasks |-> tasks]

(* GET /monitors *)
list_monitors_result ==
  [resp |-> [code |-> 200,
             body |-> IF DOMAIN monitors_db = {}
                      THEN [monitors |-> <<>>, total |-> 0]
                      ELSE [monitors |-> [i \in 1..Len(InsertionOrder) |->
                                            monitors_db[InsertionOrder[i]]],
                            total |-> Cardinality(DOMAIN monitors_db)]],
   monitors_db |-> monitors_db, active_tasks |-> active_tasks, tasks |-> tasks]

list_monitors ==
  LET r == list_monitors_result IN
  /\ monitors_db' = r.monitors_db
  /\ active_tasks' = r.active_tasks
  /\ tasks' = r.tasks
  /\ UNCHANGED <<alerts, now, accepted>>

(* ----------------------------------------------------------- countdown *)
(* a timer that may resolve the sleep before the delay has passed *)
sleep_elapsed_early(t) ==
  /\ tasks[t].pc = "sleeping"
  /\ ~tasks[t].cancel
  /\ tasks' = [tasks EXCEPT ![t].pc = "woken"]
  /\ UNCHANGED <<monitors_db, active_tasks, alerts, now, accepted>>

(* the event loop's timer resolves the sleep once the delay has passed *)
sleep_elapsed(t) ==
  /\ tasks[t].pc = "sleeping"
  /\ ~tasks[t].cancel
  /\ now >= tasks[t].deadline
  /\ tasks' = [tasks EXCEPT ![t].pc = "woken"]
  /\ UNCHANGED <<monitors_db, active_tasks, alerts, now, accepted>>

(* an alert that is never emitted *)
fire_alert_dropped(device_id, alert_email, timestamp) == alerts

(* fire_alert(device_id, alert_email, timestamp) *)
fire_alert(device_id, alert_email, timestamp) ==
  Append(alerts, [device_id |-> device_id, alert_email |-> alert_email,
                  timestamp |-> timestamp])

(* an expiry that alerts without recording the new status *)
MarkDown_forgot(device_id) == monitors_db

(* monitors_db[device_id]["status"] = "down" *)
MarkDown(device_id) == [monitors_db EXCEPT ![device_id].status = "down"]

(* a countdown that neither handles CancelledError nor re-reads the status *)
start_countdown_resume_unguarded(t) ==
  /\ tasks[t].pc \in {"sleeping", "woken"}
  /\ tasks[t].pc = "sleeping" => tasks[t].cancel
  /\ tasks' = [tasks EXCEPT ![t] = Finished(@)]
  /\ LET device_id == tasks[t].device_id IN
       /\ monitors_db' = MarkDown(device_id)
       /\ alerts' = fire_alert(device_id, monitors_db[device_id].alert_email, now)
  /\ UNCHANGED <<active_tasks, now, accepted>>

(* an expiry that alerts first and records the new status afterwards *)
expiry_steps_alert_first(device_id) ==
  IF device_id \notin DOMAIN monitors_db
  THEN <<[monitors_db |-> monitors_db, alerts |-> alerts]>>
  ELSE IF monitors_db[device_id].status = "active"
  THEN <<[monitors_db |-> monitors_db, alerts |-> alerts],
         [monitors_db |-> monitors_db,
          alerts |-> fire_alert(device_id, monitors_db[device_id].alert_email, now)],
         [monitors_db |-> MarkDown(device_id),
          alerts |-> fire_alert(device_id, monitors_db[device_id].alert_email, now)]>>
  ELSE <<[monitors_db |-> monitors_db, alerts |-> alerts]>>

(* the store and the alerts, statement after statement, of start_countdown
   after its sleep: as found, the status set to down, fire_alert called *)
expiry_steps(device_id) ==
  IF device_id \notin DOMAIN monitors_db
  THEN <<[monitors_db |-> monitors_db, alerts |-> alerts]>>
  ELSE IF monitors_db[device_id].status = "active"
  THEN <<[monitors_db |-> monitors_db, alerts |-> alerts],
         [monitors_db |-> MarkDown(device_id), alerts |-> alerts],
         [monitors_db |-> MarkDown(device_id),
          alerts |-> fire_alert(device_id, monitors_db[device_id].alert_email, now)]>>
  ELSE <<[monitors_db |-> monitors_db, alerts |-> alerts]>>

(* where start_countdown can end: after its last statement, or at the call
   of fire_alert when the call raises *)
expiry_ends(steps) ==
  {k \in 1..Len(steps) :
     \/ k = Len(steps)
     \/ k > 1 /\ steps[k].alerts # steps[k-1].alerts}

(* an expiry that marks down and alerts whatever the status *)
expiry_check_blind(device_id) ==
  IF device_id \notin DOMAIN monitors_db
  THEN [monitors_db |-> monitors_db, alerts |-> alerts]
  ELSE [monitors_db |-> MarkDown(device_id),
        alerts |-> fire_alert(device_id, monitors_db[device_id].alert_email, now)]

(* start_countdown after its sleep: the monitor is looked up again and only
   an active one is marked down and alerted *)
expiry_check(device_id) ==
  expiry_steps(device_id)[Len(expiry_steps(device_id))]

(* a countdown whose except clause is passed once the sleep has elapsed *)
start_countdown_resume_uncaught(t) ==
  /\ tasks[t].pc \in {"sleeping", "woken"}
  /\ tasks[t].pc = "sleeping" => tasks[t].cancel
  /\ tasks' = [tasks EXCEPT ![t] = Finished(@)]
  /\ IF tasks[t].cancel /\ tasks[t].pc = "sleeping"
     THEN UNCHANGED <<monitors_db, alerts>>
     ELSE /\ monitors_db' = expiry_check(tasks[t].device_id).monitors_db
          /\ alerts' = expiry_check(tasks[t].device_id).alerts
  /\ UNCHANGED <<active_tasks, now, accepted>>

(* the coroutine resumes after its await: CancelledError and a silent return,
   or the expiry check *)
start_countdown_resume(t) ==
  /\ tasks[t].pc \in {"sleeping", "woken"}
  /\ tasks[t].pc = "sleeping" => tasks[t].cancel
  /\ tasks' = [tasks EXCEPT ![t] = Finished(@)]
  /\ IF tasks[t].cancel
     THEN UNCHANGED <<monitors_db, alerts>>
     ELSE LET steps == expiry_steps(tasks[t].device_id) IN
          \E k \in expiry_ends(steps) :
            /\ monitors_db' = steps[k].monitors_db
            /\ alerts' = steps[k].alerts
  /\ UNCHANGED <<active_tasks, now, accepted>>

(* the clock of datetime.utcnow() and of the event loop advances *)
Tick ==
  /\ now < MaxTime
  /\ now' = now + 1
  /\ UNCHANGED <<monitors_db, active_tasks, tasks, alerts, accepted>>

(* ------------------------------------------------- the texts of monitors.py *)
(* the detail of an HTTPException, by handler and kind of error *)
detail(handler, kind, device_id) ==
  CASE kind = "DuplicateId" ->
         <<"Monitor '", device_id, "' already exists. Use a unique device ID.">>
    [] kind = "InvalidTimeout" -> <<"Timeout must be greater than 0 seconds.">>
    [] kind = "NotFound" /\ handler = "heartbeat" ->
         <<"Monitor '", device_id, "' not found. Register it first via POST /monitors.">>
    [] kind = "NotFound" /\ handler # "heartbeat" ->
         <<"Monitor '", device_id, "' not found.">>
    [] kind = "AlreadyDown" ->
         <<"Monitor '", device_id,
           "' is already down. Create a new monitor to restart tracking.">>
    [] kind = "CannotPauseDown" ->
         <<"Monitor '", device_id, "' is already down. Cannot pause a down monitor.">>
    [] kind = "AlreadyPaused" -> <<"Monitor '", device_id, "' is already paused.">>

(* the body of a response 2xx of a handler that left the store r *)
success_body(handler, r, device_id) ==
  CASE handler = "create_monitor" ->
         [message |-> <<"Monitor created for device '", device_id, "'">>,
          device_id |-> device_id,
          timeout |-> r.monitors_db[device_id].timeout,
          status |-> "active"]
    [] handler = "heartbeat" ->
         [message |-> <<"Heartbeat received. Timer reset for '", device_id, "'">>,
          device_id |-> device_id,
          timeout |-> monitors_db[device_id].timeout,
          last_heartbeat |-> now,
          status |-> "active"]
    [] handler = "pause_monitor" ->
         [message |-> <<"Monitor '", device_id, "' paused. Send a heartbeat to resume.">>,
          device_id |-> device_id,
          status |-> "paused"]
    [] OTHER -> r.resp.body

(* what the client receives *)
http_response(handler, r, device_id) ==
  IF r.resp.code >= 400
  THEN [status_code |-> r.resp.code,
        detail |-> detail(handler, r.resp.detail, device_id)]
  ELSE [status_code |-> r.resp.code,
        body |-> success_body(handler, r, device_id)]

(* ------------------------------------------------------------- main.py *)
(* the same service in one file: its own store, handlers and countdown *)
main_detail(handler, kind, device_id) ==
  CASE kind = "DuplicateId" -> <<"Monitor '", device_id, "' already exists">>
    [] kind = "InvalidTimeout" -> <<"Timeout must be greater than 0">>
    [] kind = "NotFound" -> <<"Monitor '", device_id, "' not found">>
    [] kind = "AlreadyDown" ->
         <<"Monitor '", device_id, "' is already down. Create a new monitor.">>
    [] kind = "CannotPauseDown" ->
         <<"Monitor '", device_id, "' is already down. Cannot pause.">>
    [] kind = "AlreadyPaused" -> <<"Monitor '", device_id, "' is already paused.">>

main_success_body(handler, r, device_id) ==
  CASE handler = "create_monitor" ->
         [message |-> <<"Monitor created for device '", device_id, "'">>,
          device_id |-> device_id,
          timeout |-> r.monitors_db[device_id].timeout,
          status |-> "active"]
    [] handler = "heartbeat" ->
         [message |-> <<"Heartbeat received. Timer reset for '", device_id, "'">>,
          device_id |-> device_id,
          timeout |-> monitors_db[device_id].timeout,
          last_heartbeat |-> r.monitors_db[device_id].last_heartbeat,
          status |-> "active"]
    [] handler = "pause_monitor" ->
         [message |-> <<"Monitor '", device_id, "' paused. Send a heartbeat to resume.">>,
          device_id |-> device_id,
          status |-> "paused"]
    [] OTHER -> r.resp.body

main_http_response(handler, r, device_id) ==
  IF r.resp.code >= 400
  THEN [status_code |-> r.resp.code,
        detail |-> main_detail(handler, r.resp.detail, device_id)]
  ELSE [status_code |-> r.resp.code,
        body |-> main_success_body(handler, r, device_id)]

(* POST /monitors of main.py *)
main_create_monitor_result(id, timeout, alert_email) ==
  IF id \in DOMAIN monitors_db
  THEN Rejected(400, "DuplicateId")
  ELSE IF timeout <= 0
  THEN Rejected(400, "InvalidTimeout")
  ELSE [resp |-> Response(201, "active"),
        monitors_db |->
          (id :> [id |-> id, timeout |-> timeout, alert_email |-> alert_email,
                  status |-> "active", created_at |-> now,
                  last_heartbeat |-> None, heartbeat_history |-> <<>>])
            @@ monitors_db,
        tasks |-> Append(tasks, NewTask(id, timeout)),
        active_tasks |-> (id :> Len(tasks) + 1) @@ active_tasks]

(* a heartbeat of main.py that leaves the old countdown running *)
main_heartbeat_keep(device_id) ==
  IF device_id \notin DOMAIN monitors_db
  THEN Rejected(404, "NotFound")
  ELSE IF monitors_db[device_id].status = "down"
  THEN Rejected(400, "AlreadyDown")
  ELSE [resp |-> Response(200, "active"),
        tasks |-> Append(tasks, NewTask(device_id, monitors_db[device_id].timeout)),
        active_tasks |-> (device_id :> Len(tasks) + 1) @@ active_tasks,
        monitors_db |->
          [monitors_db EXCEPT
             ![device_id].last_heartbeat = now,
             ![device_id].status = "active",
             ![device_id].heartbeat_history =
                Append(@, [received_at |-> now, event |-> "heartbeat",
                           timer_reset_to |-> monitors_db[device_id].timeout])]]

(* POST /monitors/{device_id}/heartbeat of main.py *)
main_heartbeat_result(device_id) ==
  IF device_id \notin DOMAIN monitors_db
  THEN Rejected(404, "NotFound")
  ELSE IF monitors_db[device_id].status = "down"
  THEN Rejected(400, "AlreadyDown")
  ELSE LET old_tasks == IF device_id \in DOMAIN active_tasks
                        THEN CancelTask(tasks, active_tasks[device_id])
                        ELSE tasks
       IN
       [resp |-> Response(200, "active"),
        tasks |-> Append(old_tasks,
                         NewTask(device_id, monitors_db[device_id].timeout)),
        active_tasks |-> (device_id :> Len(tasks) + 1) @@ active_tasks,
        monitors_db |->
          [monitors_db EXCEPT
             ![device_id].last_heartbeat = now,
             ![device_id].status = "active",
             ![device_id].heartbeat_history =
                Append(@, [received_at |-> now, event |-> "heartbeat",
                           timer_reset_to |-> monitors_db[device_id].timeout])]]

(* POST /monitors/{device_id}/pause of main.py *)
main_pause_monitor_result(device_id) ==
  IF device_id \notin DOMAIN monitors_db
  THEN Rejected(404, "NotFound")
  ELSE IF monitors_db[device_id].status = "down"
  THEN Rejected(400, "CannotPauseDown")
  ELSE IF monitors_db[device_id].status = "paused"
  THEN Rejected(400, "AlreadyPaused")
  ELSE [resp |-> Response(200, "paused"),
        tasks |-> IF device_id \in DOMAIN active_tasks
                  THEN CancelTask(tasks, active_tasks[device_id])
                  ELSE tasks,
        active_tasks |-> active_tasks,
        monitors_db |-> [monitors_db EXCEPT ![device_id].status = "paused"]]

(* simulate_email_alert(device_id, alert_email, timestamp) of main.py *)
main_simulate_email_alert(device_id, alert_email, timestamp) ==
  Append(alerts, [device_id |-> device_id, alert_email |-> alert_email,
                  timestamp |-> timestamp])

(* start_countdown of main.py after its sleep, statement after statement *)
main_expiry_steps(device_id) ==
  IF device_id \notin DOMAIN monitors_db
  THEN <<[monitors_db |-> monitors_db, alerts |-> alerts]>>
  ELSE IF monitors_db[device_id].status = "active"
  THEN LET down == [monitors_db EXCEPT ![device_id].status = "down"] IN
       <<[monitors_db |-> monitors_db, alerts |-> alerts],
         [monitors_db |-> down, alerts |-> alerts],
         [monitors_db |-> down,
          alerts |-> main_simulate_email_alert(
                       device_id, monitors_db[device_id].alert_email, now)]>>
  ELSE <<[monitors_db |-> monitors_db, alerts |-> alerts]>>

(* ------------------------------------------------------- specification *)
Init ==
  /\ monitors_db = EmptyMap
  /\ active_tasks = EmptyMap
  /\ tasks = <<>>
  /\ alerts = <<>>
  /\ now = 0
  /\ accepted = [d \in Devices |-> 0]

Register == \E id \in Devices, body \in Bodies :
              create_monitor(id, body.timeout, body.alert_email)
Heartbeat == \E device_id \in Devices : heartbeat(device_id)
Pause == \E device_id \in Devices : pause_monitor(device_id)
Get == \E device_id \in Devices : get_monitor(device_id)
GetHistory == \E device_id \in Devices : get_monitor_history(device_id)
SleepElapsed == \E t \in 1..Len(tasks) : sleep_elapsed(t)
CountdownResume == \E t \in 1..Len(tasks) : start_countdown_resume(t)

Next ==
  \/ Register
  \/ Heartbeat
  \/ Pause
  \/ list_monitors
  \/ Get
  \/ GetHistory
  \/ SleepElapsed
  \/ CountdownResume
  \/ Tick

Spec == Init /\ [][Next]_vars

(* the event loop runs every timer that is due and every task that is ready *)
LiveSpec == Spec /\ WF_vars(SleepElapsed) /\ WF_vars(CountdownResume)

(* ------------------------------------------------------------ observers *)
Status(d) == IF d \in DOMAIN monitors_db THEN monitors_db[d].status ELSE "absent"

History(d) == IF d \in DOMAIN monitors_db THEN monitors_db[d].heartbeat_history ELSE <<>>

AlertCount(d) == Cardinality({i \in 1..Len(alerts) : alerts[i].device_id = d})

TasksOf(d) == {t \in 1..Len(tasks) : tasks[t].device_id = d}

(* this step is the step in which countdown t returns *)
Returns(t) == tasks[t].pc # "done" /\ tasks'[t].pc = "done"

(* this step takes device d from active to down *)
GoesDown(d) == Status(d) = "active" /\ Status(d)' = "down"

(* this step accepts a heartbeat for device d *)
Accepts(d) == accepted'[d] = accepted[d] + 1

(* the later of the registration and the last accepted heartbeat of d *)
LastArmed(d) ==
  IF monitors_db[d].last_heartbeat > monitors_db[d].created_at
  THEN monitors_db[d].last_heartbeat
  ELSE monitors_db[d].created_at

(* the countdown created last for device d *)
Latest(d) == CHOOSE t \in TasksOf(d) : \A u \in TasksOf(d) : u <= t

(* this step changes something of device d: its record, its stored
   countdown, one of its countdowns, its alerts or its accepted heartbeats *)
Touched(d) ==
  \/ (d \in DOMAIN monitors_db) # (d \in DOMAIN monitors_db')
  \/ d \in DOMAIN monitors_db /\ d \in DOMAIN monitors_db'
       /\ monitors_db'[d] # monitors_db[d]
  \/ d \in DOMAIN active_tasks /\ d \in DOMAIN active_tasks'
       /\ active_tasks'[d] # active_tasks[d]
  \/ \E t \in 1..Len(tasks') :
       /\ tasks'[t].device_id = d
       /\ t > Len(tasks) \/ tasks'[t] # tasks[t]
  \/ AlertCount(d)' # AlertCount(d)
  \/ accepted'[d] # accepted[d]

(* the registrations answered 201 so far: every countdown was created by
   such a registration or by an accepted heartbeat *)
Registrations ==
  Len(tasks)
    - Cardinality({p \in Devices \X (1..Len(tasks)) : p[2] <= accepted[p[1]]})

(* --------------------------------------------------------------- claims *)

(* C1: fire_alert is invoked exactly once in every step that takes a device
   from active to down and in no other step, and a device has one alert when
   it is down and none otherwise (so at most one over its lifetime). *)
C1_AlertOncePerDownTransition ==
  /\ [](\A d \in Devices : AlertCount(d) = IF Status(d) = "down" THEN 1 ELSE 0)
  /\ [][\A d \in Devices :
          AlertCount(d)' = AlertCount(d) + (IF GoesDown(d) THEN 1 ELSE 0)]_vars

C1_Witness ==
  \E d \in Devices : Status(d) = "down" /\ AlertCount(d) = 1 /\ accepted[d] >= 1

(* C2: once a monitor is down no step changes its status, and a heartbeat
   and a pause on it answer 400 (AlreadyDown, CannotPauseDown). *)
C2_DownIsTerminal ==
  /\ [](\A d \in Devices :
          Status(d) = "down" =>
            /\ heartbeat_result(d).resp = Response(400, "AlreadyDown")
            /\ pause_monitor_result(d).resp = Response(400, "CannotPauseDown"))
  /\ [][\A d \in Devices : Status(d) = "down" => Status(d)' = "down"]_vars

(* a monitor that went down some time ago *)
C2_Witness ==
  \E i \in 1..Len(alerts) :
    /\ Status(alerts[i].device_id) = "down"
    /\ alerts[i].timestamp < now

(* C3: a countdown that a heartbeat has replaced never takes the monitor
   down: the only step that takes a monitor from active to down is the
   return of the countdown installed last, uncancelled, after its sleep. *)
C3_HeartbeatWinsRace ==
  [][\A d \in Devices :
       GoesDown(d) =>
         /\ d \in DOMAIN active_tasks
         /\ tasks[active_tasks[d]].pc = "woken"
         /\ ~tasks[active_tasks[d]].cancel
         /\ Returns(active_tasks[d])
         /\ \A t \in TasksOf(d) \ {active_tasks[d]} : ~Returns(t)]_vars

(* the heartbeat arrived after the sleep had elapsed and before the callback
   ran, and the monitor is still active *)
C3_Witness ==
  \E t \in 1..Len(tasks) :
    /\ tasks[t].pc = "woken"
    /\ tasks[t].cancel
    /\ Status(tasks[t].device_id) = "active"
    /\ accepted[tasks[t].device_id] >= 1

(* C4: from a paused monitor no step fires an alert or marks it down, and its
   status stays paused in every step but an accepted heartbeat. *)
C4_PauseStopsCountdown ==
  [][\A d \in Devices :
       Status(d) = "paused" =>
         /\ AlertCount(d)' = AlertCount(d)
         /\ Status(d)' # "down"
         /\ Status(d)' = "paused" \/ Accepts(d)]_vars

(* paused, never resumed, and the original timeout is over *)
C4_Witness ==
  \E d \in Devices :
    /\ Status(d) = "paused"
    /\ accepted[d] = 0
    /\ now > monitors_db[d].created_at + monitors_db[d].timeout
    /\ \A t \in TasksOf(d) : tasks[t].pc = "done"

(* C5: a heartbeat on a paused monitor answers 200, makes the monitor active,
   appends one history record and installs a fresh countdown whose deadline
   is the full timeout from now; and every step that accepts a heartbeat for
   a paused monitor leaves it active with such a countdown, live and stored. *)
C5_HeartbeatResumesPaused ==
  /\ [](\A d \in Devices :
          Status(d) = "paused" =>
            LET r == heartbeat_result(d) IN
            /\ r.resp.code = 200
            /\ r.monitors_db[d].status = "active"
            /\ r.monitors_db[d].heartbeat_history =
                 Append(History(d), HistoryRecord(now, monitors_db[d].timeout))
            /\ Len(r.tasks) = Len(tasks) + 1
            /\ r.active_tasks[d] = Len(r.tasks)
            /\ r.tasks[Len(r.tasks)] =
                 [device_id |-> d, timeout |-> monitors_db[d].timeout,
                  pc |-> "sleeping", cancel |-> FALSE,
                  deadline |-> now + monitors_db[d].timeout])
  /\ [][\A d \in Devices :
          (Status(d) = "paused" /\ Accepts(d)) =>
            /\ Status(d)' = "active"
            /\ Len(History(d)') = Len(History(d)) + 1
            /\ LiveTasks(d)' = {active_tasks'[d]}
            /\ tasks'[active_tasks'[d]].deadline = now + monitors_db[d].timeout]_vars

(* a monitor paused for longer than its timeout, on which a heartbeat can be
   served *)
C5_Witness ==
  \E d \in Devices :
    /\ Status(d) = "paused"
    /\ now > monitors_db[d].created_at + monitors_db[d].timeout
    /\ Len(tasks) < MaxTasks

(* the monitor is active and the timeout of its stored countdown is over
   (or that countdown has even returned) *)
Overdue(d) ==
  /\ Status(d) = "active"
  /\ \/ tasks[active_tasks[d]].pc = "done"
     \/ now >= tasks[active_tasks[d]].deadline

(* C6: once the timeout of an active monitor has elapsed, the monitor
   eventually is down with exactly one alert, which carries its id, unless a
   pause is accepted (it is paused) or a heartbeat is accepted (it is active
   with a countdown whose timeout is not over) first. *)
C6_ActiveEventuallyDown ==
  \A d \in Devices :
    Overdue(d)
      ~> \/ /\ Status(d) = "down"
            /\ \E i \in 1..Len(alerts) : alerts[i].device_id = d
            /\ AlertCount(d) = 1
         \/ Status(d) = "paused"
         \/ Status(d) = "active" /\ ~Overdue(d)

C6_Witness ==
  \E d \in Devices :
    /\ Status(d) = "down"
    /\ accepted[d] = 0
    /\ AlertCount(d) = 1
    /\ now > monitors_db[d].created_at + monitors_db[d].timeout

(* C7: a monitor has a live countdown iff its status is active. *)
C7_LiveIffActive ==
  \A d \in Devices : (LiveTasks(d) # {}) <=> (Status(d) = "active")

(* a down monitor and a paused one whose cancelled countdown has not yet
   returned *)
C7_Witness ==
  \E d, e \in Devices :
    /\ Status(d) = "down"
    /\ Status(e) = "paused"
    /\ \E t \in TasksOf(e) : tasks[t].pc # "done"

(* C8: a device never has two live countdowns, and the countdown that was
   stored for a device is no longer live once another one is stored. *)
C8_AtMostOneLive ==
  /\ [](\A d \in Devices : Cardinality(LiveTasks(d)) <= 1)
  /\ [][\A d \in DOMAIN active_tasks :
          active_tasks'[d] # active_tasks[d] =>
            \/ tasks'[active_tasks[d]].pc = "done"
            \/ tasks'[active_tasks[d]].cancel]_vars

C8_Witness ==
  \E d \in Devices :
    /\ Cardinality(LiveTasks(d)) = 1
    /\ \E t \in TasksOf(d) : tasks[t].pc # "done" /\ tasks[t].cancel

(* C9: the history of a monitor is as long as the number of heartbeats
   accepted for it; a step appends one record if it accepts a heartbeat for
   the monitor and leaves the history as it is otherwise. *)
C9_HistoryCountsHeartbeats ==
  /\ [](\A d \in Devices : Len(History(d)) = accepted[d])
  /\ [][\A d \in Devices :
          IF Accepts(d)
          THEN /\ Len(History(d)') = Len(History(d)) + 1
               /\ SubSeq(History(d)', 1, Len(History(d))) = History(d)
          ELSE History(d)' = History(d)]_vars

(* paused after two heartbeats *)
C9_Witness ==
  \E d \in Devices :
    /\ Status(d) = "paused"
    /\ accepted[d] = 2
    /\ Len(History(d)) = 2

(* C10: a registration of an id that exists, whatever its body, answers 400
   DuplicateId and leaves the records, the stored countdowns and the
   countdowns themselves as they were. *)
C10_DuplicateRegisterChangesNothing ==
  \A d \in DOMAIN monitors_db : \A b \in Bodies :
    LET r == create_monitor_result(d, b.timeout, b.alert_email) IN
    /\ r.resp = Response(400, "DuplicateId")
    /\ r.monitors_db = monitors_db
    /\ r.active_tasks = active_tasks
    /\ r.tasks = tasks

(* a monitor with a history and a running countdown, registered with another
   body than the one of the second registration *)
C10_Witness ==
  \E d \in Devices :
    /\ Len(History(d)) >= 1
    /\ LiveTasks(d) # {}
    /\ monitors_db[d].timeout = 1

(* C11: a registration of a new id with a timeout of zero or less answers 400
   InvalidTimeout and creates neither a record nor a countdown, so every
   stored monitor, and every countdown, has a timeout greater than zero. *)
C11_InvalidTimeoutCreatesNothing ==
  /\ \A d \in Devices \ DOMAIN monitors_db : \A b \in Bodies :
       b.timeout <= 0 =>
         LET r == create_monitor_result(d, b.timeout, b.alert_email) IN
         /\ r.resp = Response(400, "InvalidTimeout")
         /\ r.monitors_db = monitors_db
         /\ r.active_tasks = active_tasks
         /\ r.tasks = tasks
  /\ \A d \in DOMAIN monitors_db : monitors_db[d].timeout > 0
  /\ \A t \in 1..Len(tasks) : tasks[t].timeout > 0

(* one id is registered, the other is still new and the clock has advanced *)
C11_Witness ==
  \E d, e \in Devices :
    /\ d \in DOMAIN monitors_db
    /\ e \notin DOMAIN monitors_db
    /\ now > monitors_db[d].created_at
    /\ Len(tasks) < MaxTasks

(* C12: a heartbeat on a down monitor answers 400 AlreadyDown and leaves the
   record (status, last_heartbeat, history), the stored countdown and the
   countdowns as they were; a down monitor has no live countdown and no step
   gives it one, changes its record or fires an alert for it. *)
C12_HeartbeatOnDownChangesNothing ==
  /\ [](\A d \in Devices :
          Status(d) = "down" =>
            /\ heartbeat_result(d) = Rejected(400, "AlreadyDown")
            /\ LiveTasks(d) = {})
  /\ [][\A d \in Devices :
          Status(d) = "down" =>
            /\ monitors_db'[d] = monitors_db[d]
            /\ active_tasks'[d] = active_tasks[d]
            /\ TasksOf(d)' = TasksOf(d)
            /\ LiveTasks(d)' = {}
            /\ AlertCount(d)' = AlertCount(d)]_vars

(* a monitor that went down after a heartbeat, with room for one more
   countdown *)
C12_Witness ==
  \E d \in Devices :
    /\ Status(d) = "down"
    /\ monitors_db[d].last_heartbeat # None
    /\ now > monitors_db[d].last_heartbeat
    /\ Len(tasks) < MaxTasks

(* C13: a pause on a paused monitor answers 400 AlreadyPaused and a pause on
   a down monitor answers 400 CannotPauseDown, and both leave the records,
   the stored countdowns and the countdowns as they were. *)
C13_PauseRejectedChangesNothing ==
  \A d \in Devices :
    /\ Status(d) = "paused" =>
         pause_monitor_result(d) = Rejected(400, "AlreadyPaused")
    /\ Status(d) = "down" =>
         pause_monitor_result(d) = Rejected(400, "CannotPauseDown")

(* a paused monitor and a down one, every countdown of theirs returned *)
C13_Witness ==
  \E d, e \in Devices :
    /\ Status(d) = "paused"
    /\ Status(e) = "down"
    /\ \A t \in 1..Len(tasks) : tasks[t].pc = "done"

(* C14: a heartbeat, a pause, a read and a history read on an id that was
   never registered answer 404 NotFound and leave the records, the stored
   countdowns and the countdowns as they were; such an id has no record, no
   stored countdown, no countdown, no accepted heartbeat and no alert. *)
C14_UnknownIdNotFound ==
  \A d \in Devices \ DOMAIN monitors_db :
    /\ heartbeat_result(d) = Rejected(404, "NotFound")
    /\ pause_monitor_result(d) = Rejected(404, "NotFound")
    /\ get_monitor_result(d) = Rejected(404, "NotFound")
    /\ get_monitor_history_result(d) = Rejected(404, "NotFound")
    /\ d \notin DOMAIN active_tasks
    /\ TasksOf(d) = {}
    /\ accepted[d] = 0
    /\ AlertCount(d) = 0

(* one id never registered while the other has been beaten and paused *)
C14_Witness ==
  \E d, e \in Devices :
    /\ e \notin DOMAIN monitors_db
    /\ Status(d) = "paused"
    /\ accepted[d] >= 1
    /\ Len(tasks) < MaxTasks

(* C15: a registration of a new id with a timeout above zero answers 201 and
   stores an active record without last_heartbeat and with an empty history,
   and a running countdown of timeout from now, stored for the id; every
   step that registers a monitor leaves it so, and an active monitor stays
   active in every step but an accepted pause (paused) and the expiry of its
   stored countdown after the timeout (down). *)
C15_RegistrationStartsActive ==
  /\ [](\A d \in Devices \ DOMAIN monitors_db : \A b \in Bodies :
          b.timeout > 0 =>
            LET r == create_monitor_result(d, b.timeout, b.alert_email) IN
            /\ r.resp = Response(201, "active")
            /\ DOMAIN r.monitors_db = DOMAIN monitors_db \cup {d}
            /\ \A e \in DOMAIN monitors_db : r.monitors_db[e] = monitors_db[e]
            /\ r.monitors_db[d] =
                 [id |-> d, timeout |-> b.timeout, alert_email |-> b.alert_email,
                  status |-> "active", created_at |-> now,
                  last_heartbeat |-> None, heartbeat_history |-> <<>>]
            /\ r.tasks =
                 Append(tasks, [device_id |-> d, timeout |-> b.timeout,
                                pc |-> "sleeping", cancel |-> FALSE,
                                deadline |-> now + b.timeout])
            /\ r.active_tasks[d] = Len(tasks) + 1)
  /\ [][\A d \in Devices :
          /\ (Status(d) = "absent" /\ Status(d)' # "absent") =>
               /\ Status(d)' = "active"
               /\ monitors_db'[d].last_heartbeat = None
               /\ History(d)' = <<>>
               /\ LiveTasks(d)' = {active_tasks'[d]}
               /\ tasks'[active_tasks'[d]].deadline = now + monitors_db'[d].timeout
          /\ Status(d) = "active" =>
               \/ Status(d)' = "active"
               \/ Status(d)' = "paused"
               \/ /\ Status(d)' = "down"
                  /\ now >= tasks[active_tasks[d]].deadline]_vars

(* a monitor just registered, some time after the start, its countdown
   running *)
C15_Witness ==
  \E d \in Devices :
    /\ Status(d) = "active"
    /\ accepted[d] = 0
    /\ now > 0
    /\ monitors_db[d].created_at = now
    /\ monitors_db[d].last_heartbeat = None
    /\ LiveTasks(d) = {active_tasks[d]}
    /\ tasks[active_tasks[d]].pc = "sleeping"
    /\ tasks[active_tasks[d]].deadline = now + monitors_db[d].timeout

(* C16: an accepted heartbeat replaces the countdown instead of extending
   it: the countdown it installs ends a full timeout after the heartbeat,
   and a monitor goes down only when at least its timeout has passed since
   the later of its registration and its last accepted heartbeat. *)
C16_HeartbeatReplacesCountdown ==
  [][\A d \in Devices :
       /\ Accepts(d) =>
            /\ monitors_db'[d].last_heartbeat = now
            /\ tasks'[active_tasks'[d]].deadline = now + monitors_db[d].timeout
       /\ GoesDown(d) => now >= LastArmed(d) + monitors_db[d].timeout]_vars

(* the deadline of the registration has passed, the one of the heartbeat has
   not, the replaced countdown has returned and the monitor is active *)
C16_Witness ==
  \E d \in Devices :
    /\ Status(d) = "active"
    /\ accepted[d] >= 1
    /\ monitors_db[d].last_heartbeat > monitors_db[d].created_at
    /\ now >= monitors_db[d].created_at + monitors_db[d].timeout
    /\ now < monitors_db[d].last_heartbeat + monitors_db[d].timeout
    /\ \A t \in TasksOf(d) \ {active_tasks[d]} : tasks[t].pc = "done"

(* C17: the expiry check reads the status anew: on an active monitor it sets
   the status to down and fires one alert with the monitor's id and address,
   on a paused, down or absent one it changes nothing and fires no alert;
   and a countdown that returns uncancelled does to the store exactly what
   the expiry check yields. *)
C17_ExpiryRereadsStatus ==
  /\ [](\A d \in Devices :
          LET r == expiry_check(d) IN
          IF Status(d) = "active"
          THEN /\ r.monitors_db = [monitors_db EXCEPT ![d].status = "down"]
               /\ r.alerts = Append(alerts,
                                    [device_id |-> d,
                                     alert_email |-> monitors_db[d].alert_email,
                                     timestamp |-> now])
          ELSE /\ r.monitors_db = monitors_db
               /\ r.alerts = alerts)
  /\ [][\A t \in 1..Len(tasks) :
          (Returns(t) /\ ~tasks[t].cancel) =>
            /\ monitors_db' = expiry_check(tasks[t].device_id).monitors_db
            /\ alerts' = expiry_check(tasks[t].device_id).alerts]_vars

(* the sleep of an active monitor's countdown has elapsed and its expiry check
   is about to run, while the other monitor is paused *)
C17_Witness ==
  \E d, e \in Devices :
    /\ Status(e) = "paused"
    /\ Status(d) = "active"
    /\ tasks[active_tasks[d]].pc = "woken"
    /\ ~tasks[active_tasks[d]].cancel

(* C18: a countdown that a heartbeat or a pause has cancelled keeps its
   cancellation until it returns, and its return changes no record and fires
   no alert, also when the cancellation came after its sleep had elapsed;
   the same holds of the return of any countdown that is no longer the
   stored one or whose monitor is paused. *)
C18_CancelledNeverFires ==
  [][\A t \in 1..Len(tasks) :
       /\ tasks[t].cancel => (tasks'[t].cancel \/ tasks'[t].pc = "done")
       /\ ( /\ Returns(t)
            /\ \/ tasks[t].cancel
               \/ t # active_tasks[tasks[t].device_id]
               \/ Status(tasks[t].device_id) = "paused" )
          => (monitors_db' = monitors_db /\ alerts' = alerts)]_vars

(* a pause cancelled the countdown after its sleep had elapsed and before it
   resumed *)
C18_Witness ==
  \E t \in 1..Len(tasks) :
    /\ tasks[t].pc = "woken"
    /\ tasks[t].cancel
    /\ Status(tasks[t].device_id) = "paused"
    /\ now >= tasks[t].deadline

(* C19: the countdown stored for a device is the one created last for it and
   no earlier countdown of the device is live; a step that takes a monitor
   down is the return of that last countdown and of no other, and the return
   of an earlier countdown changes no record and fires no alert. *)
C19_StaleCountdownHarmless ==
  /\ [](\A d \in DOMAIN monitors_db :
          /\ active_tasks[d] = Latest(d)
          /\ \A t \in TasksOf(d) \ {Latest(d)} : ~Live(t))
  /\ [][\A d \in Devices :
          GoesDown(d) =>
            /\ Returns(Latest(d))
            /\ \A t \in TasksOf(d) \ {Latest(d)} : tasks'[t] = tasks[t]]_vars
  /\ [][\A t \in 1..Len(tasks) :
          (Returns(t) /\ t # Latest(tasks[t].device_id)) =>
            (monitors_db' = monitors_db /\ alerts' = alerts)]_vars

(* the sleeps of a replaced countdown and of its successor have both elapsed
   and neither has resumed yet *)
C19_Witness ==
  \E d \in Devices :
    /\ Status(d) = "active"
    /\ tasks[Latest(d)].pc = "woken"
    /\ ~tasks[Latest(d)].cancel
    /\ \E t \in TasksOf(d) \ {Latest(d)} :
         tasks[t].pc = "woken" /\ tasks[t].cancel

(* C20: the effects on one device are ordered: no step has more than one of
   an accepted heartbeat, an accepted pause and an expiry for the device;
   every accepted heartbeat finds the store as the step before left it,
   cancels the countdown stored then, leaves its own countdown as the only
   live one of the device and appends its record to the history, so two
   heartbeats in a row leave one live countdown and both records. *)
C20_PerDeviceSerialization ==
  /\ [](\A d \in Devices :
          accepted[d] >= 2 =>
            /\ Cardinality(LiveTasks(d)) <= 1
            /\ Status(d) = "active" => LiveTasks(d) = {Latest(d)}
            /\ Len(History(d)) = accepted[d])
  /\ [][\A d \in Devices :
          /\ ~(Accepts(d) /\ GoesDown(d))
          /\ ~(Accepts(d) /\ Status(d)' = "paused")
          /\ Accepts(d) =>
               /\ Len(tasks') = Len(tasks) + 1
               /\ active_tasks'[d] = Len(tasks')
               /\ LiveTasks(d)' = {Len(tasks')}
               /\ \/ tasks'[active_tasks[d]].pc = "done"
                  \/ tasks'[active_tasks[d]].cancel
               /\ History(d)' =
                    Append(History(d), HistoryRecord(now, monitors_db[d].timeout))]_vars

(* two heartbeats at the same instant: both records are in the history, the
   countdown of the first is cancelled and has not resumed, the countdown of
   the second is the only live one *)
C20_Witness ==
  \E d \in Devices :
    /\ accepted[d] = 2
    /\ Len(History(d)) = 2
    /\ History(d)[1].received_at = History(d)[2].received_at
    /\ LiveTasks(d) = {Latest(d)}
    /\ \E t \in TasksOf(d) \ {Latest(d)} :
         /\ tasks[t].pc = "sleeping"
         /\ tasks[t].cancel
         /\ tasks[t].deadline = tasks[Latest(d)].deadline
         /\ \E u \in TasksOf(d) : u < t

(* C21: the effects of an accepted heartbeat become visible at once: a read
   of the record or of the history of the same id that runs beside the
   heartbeat returns the record as it was before the heartbeat or as it is
   after it, never a mixture, and the heartbeat leaves the record that its
   last assignment yields. *)
C21_HeartbeatAtomicForReaders ==
  \A d \in DOMAIN monitors_db :
    heartbeat_result(d).resp.code = 200 =>
      LET ws == heartbeat_writes(monitors_db[d])
          before == ws[1]
          after == heartbeat_result(d).monitors_db[d]
      IN /\ after = ws[Len(ws)]
         /\ get_monitor_views(d, ws) \subseteq {before, after}
         /\ get_monitor_history_views(d, ws) \subseteq
              {HistoryBody(d, before), HistoryBody(d, after)}

(* C22: the expiry sets the status to down before it calls the alert sink
   and the sink changes no record: at the call the monitor is down already;
   every step that fires an alert for a device leaves the device down,
   whether the call returns or raises, and every device that an alert was
   fired for is down. *)
C22_DownBeforeAlert ==
  /\ [](\A d \in Devices :
          LET s == expiry_steps(d) IN
          \A i \in 2..Len(s) :
            s[i].alerts # s[i-1].alerts =>
              /\ s[i-1].monitors_db[d].status = "down"
              /\ s[i].monitors_db = s[i-1].monitors_db)
  /\ [](\A i \in 1..Len(alerts) : Status(alerts[i].device_id) = "down")
  /\ [][\A d \in Devices :
          AlertCount(d)' > AlertCount(d) => Status(d)' = "down"]_vars

(* the alert of a monitor has just been fired, while the other monitor is
   still active *)
C22_Witness ==
  \E i \in 1..Len(alerts) : \E e \in Devices :
    /\ alerts[i].timestamp = now
    /\ now >= 1
    /\ Status(alerts[i].device_id) = "down"
    /\ Status(e) = "active"

(* C23: cancel() on a countdown that is cancelled already or has returned
   changes nothing, and a second cancel() does no more than the first; so a
   heartbeat on a paused monitor, whose stored countdown the pause cancelled,
   is accepted, leaves every countdown there was as it is and adds its own,
   and changes no record but the one of its device. *)
C23_CancelIdempotent ==
  /\ \A t \in 1..Len(tasks) :
       /\ (tasks[t].pc = "done" \/ tasks[t].cancel) => CancelTask(tasks, t) = tasks
       /\ CancelTask(CancelTask(tasks, t), t) = CancelTask(tasks, t)
       /\ ~Live(t) => \A u \in 1..Len(tasks) :
                         CancelTask(tasks, t)[u].cancel = tasks[u].cancel
  /\ \A d \in Devices :
       Status(d) = "paused" =>
         LET r == heartbeat_result(d) IN
         /\ r.resp.code = 200
         /\ CancelStored(d) = tasks
         /\ SubSeq(r.tasks, 1, Len(tasks)) = tasks
         /\ Len(r.tasks) = Len(tasks) + 1
         /\ \A e \in DOMAIN monitors_db \ {d} : r.monitors_db[e] = monitors_db[e]

(* a paused monitor whose stored countdown is cancelled and has not
   returned, beside a countdown that has returned, with room for a heartbeat *)
C23_Witness ==
  \E d \in Devices :
    /\ Status(d) = "paused"
    /\ tasks[active_tasks[d]].cancel
    /\ tasks[active_tasks[d]].pc # "done"
    /\ \E t \in 1..Len(tasks) : tasks[t].pc = "done"
    /\ Len(tasks) < MaxTasks

(* C24: a pause on an active monitor answers 200 and changes of the record
   only the status, which becomes paused: the history, last_heartbeat,
   timeout, alert_email and created_at stay; it leaves the other records and
   the stored countdowns as they are and of the countdowns changes only the
   stored one of the device, which is live no more; and every step that
   pauses a monitor does so. *)
C24_PauseChangesOnlyStatus ==
  /\ [](\A d \in Devices :
          Status(d) = "active" =>
            LET r == pause_monitor_result(d) IN
            /\ r.resp = Response(200, "paused")
            /\ r.monitors_db = [monitors_db EXCEPT ![d].status = "paused"]
            /\ r.active_tasks = active_tasks
            /\ Len(r.tasks) = Len(tasks)
            /\ \A t \in 1..Len(tasks) : t # active_tasks[d] => r.tasks[t] = tasks[t]
            /\ r.tasks[active_tasks[d]].pc = "done" \/ r.tasks[active_tasks[d]].cancel)
  /\ [][\A d \in Devices :
          (Status(d) = "active" /\ Status(d)' = "paused") =>
            /\ monitors_db'[d] = [monitors_db[d] EXCEPT !.status = "paused"]
            /\ accepted'[d] = accepted[d]
            /\ AlertCount(d)' = AlertCount(d)]_vars

(* an active monitor with a heartbeat some time ago and a long timeout, its
   countdown running *)
C24_Witness ==
  \E d \in Devices :
    /\ Status(d) = "active"
    /\ monitors_db[d].last_heartbeat # None
    /\ now > monitors_db[d].last_heartbeat
    /\ monitors_db[d].timeout = 2
    /\ tasks[active_tasks[d]].pc = "sleeping"

(* C25: the status of a monitor changes only along the state machine: a
   registration enters active, an accepted heartbeat leaves an active or a
   paused monitor active, a pause takes active to paused, the return of a
   countdown of the device takes active to down; nothing else changes a
   status, so down is entered only from active and by an expiry, never from
   paused, and is never left. *)
C25_StateMachine ==
  [][\A d \in Devices :
       LET from == Status(d)
           to == Status(d)'
       IN /\ <<from, to>> \in {<<"absent", "absent">>, <<"absent", "active">>,
                                <<"active", "active">>, <<"active", "paused">>,
                                <<"active", "down">>, <<"paused", "paused">>,
                                <<"paused", "active">>, <<"down", "down">>}
          /\ Accepts(d) => (from \in {"active", "paused"} /\ to = "active")
          /\ (from = "paused" /\ to = "active") => Accepts(d)
          /\ (from = "active" /\ to = "paused") =>
               (~Accepts(d) /\ \A t \in TasksOf(d) : ~Returns(t))
          /\ (from = "active" /\ to = "down") =>
               (~Accepts(d) /\ \E t \in TasksOf(d) : Returns(t))
          /\ (from = "absent" /\ to = "active") =>
               (~Accepts(d) /\ TasksOf(d)' = {Len(tasks')})]_vars

(* a monitor that took a heartbeat when its first deadline had come and went
   down later, beside one that is paused *)
C25_Witness ==
  \E d, e \in Devices :
    /\ Status(d) = "down"
    /\ accepted[d] >= 1
    /\ monitors_db[d].last_heartbeat >= monitors_db[d].created_at + monitors_db[d].timeout
    /\ Status(e) = "paused"

(* C26: no step changes the id, timeout, alert_email or created_at of a
   registered monitor, and no rejected registration would; the record of an
   id carries that id, and every countdown of a device and every record of
   its history carry the timeout of its registration. *)
C26_RegistrationDataImmutable ==
  /\ [](\A d \in DOMAIN monitors_db :
          /\ monitors_db[d].id = d
          /\ monitors_db[d].created_at <= now
          /\ \A t \in TasksOf(d) : tasks[t].timeout = monitors_db[d].timeout
          /\ \A i \in 1..Len(History(d)) :
               History(d)[i].timer_reset_to = monitors_db[d].timeout
          /\ \A b \in Bodies :
               create_monitor_result(d, b.timeout, b.alert_email).monitors_db[d]
                 = monitors_db[d])
  /\ [][\A d \in DOMAIN monitors_db :
          /\ d \in DOMAIN monitors_db'
          /\ monitors_db'[d].id = monitors_db[d].id
          /\ monitors_db'[d].timeout = monitors_db[d].timeout
          /\ monitors_db'[d].alert_email = monitors_db[d].alert_email
          /\ monitors_db'[d].created_at = monitors_db[d].created_at]_vars

(* a monitor that took two heartbeats and went down, some time after its
   registration *)
C26_Witness ==
  \E d \in Devices :
    /\ Status(d) = "down"
    /\ accepted[d] = 2
    /\ now > monitors_db[d].created_at
    /\ Cardinality(TasksOf(d)) = 3

(* C27: the last_heartbeat of a monitor is absent exactly when its history is
   empty and is the received_at of the last record otherwise; the records
   stand in the order in which the heartbeats were accepted, each accepted
   heartbeat adding the record of its time at the end. *)
C27_LastHeartbeatMatchesHistory ==
  /\ [](\A d \in DOMAIN monitors_db :
          LET h == History(d)
          IN /\ (monitors_db[d].last_heartbeat = None) <=> (h = <<>>)
             /\ h # <<>> => monitors_db[d].last_heartbeat = h[Len(h)].received_at
             /\ \A i, j \in 1..Len(h) :
                  i <= j => h[i].received_at <= h[j].received_at)
  /\ [][\A d \in Devices :
          Accepts(d) =>
            /\ History(d)' = Append(History(d), HistoryRecord(now, monitors_db[d].timeout))
            /\ monitors_db'[d].last_heartbeat = now]_vars

(* two heartbeats at different times, the monitor still active *)
C27_Witness ==
  \E d \in Devices :
    /\ Status(d) = "active"
    /\ Len(History(d)) = 2
    /\ History(d)[1].received_at < History(d)[2].received_at
    /\ monitors_db[d].last_heartbeat = History(d)[2].received_at

(* C28: a step changes something of one device at most: a registration, a
   heartbeat, a pause, the end of a sleep or the return of a countdown for
   one device leaves the record, the stored countdown, the countdowns, the
   alerts and the count of accepted heartbeats of every other device as
   they were. *)
C28_DevicesIndependent ==
  [][\A d, e \in Devices : (d # e /\ Touched(d)) => ~Touched(e)]_vars

(* a monitor registered before the other one took its heartbeat, its record
   as registered and its countdown still running *)
C28_Witness ==
  \E d, e \in Devices :
    /\ d # e
    /\ Status(d) = "active"
    /\ accepted[d] = 1
    /\ Status(e) = "active"
    /\ accepted[e] = 0
    /\ monitors_db[e].created_at < monitors_db[d].last_heartbeat
    /\ LiveTasks(e) = {active_tasks[e]}
    /\ tasks[active_tasks[e]].pc = "sleeping"

(* C29: no step removes a record, the record stored under an id is the
   record of that id, and the listing returns every record once, in the
   order of registration, with a total that is the number of records and
   the number of registrations answered 201 so far; the number of records
   grows by one in the steps that register a monitor and in no other. *)
C29_RegisteredIdsOnlyGrow ==
  /\ [](LET body == list_monitors_result.resp.body IN
        /\ body.total = Registrations
        /\ body.total = Cardinality(DOMAIN monitors_db)
        /\ Len(body.monitors) = body.total
        /\ \A d \in DOMAIN monitors_db :
             /\ monitors_db[d].id = d
             /\ Cardinality({i \in 1..Len(body.monitors) :
                               body.monitors[i] = monitors_db[d]}) = 1
        /\ \A i, j \in 1..Len(body.monitors) :
             i < j => body.monitors[i].created_at <= body.monitors[j].created_at)
  /\ [][/\ DOMAIN monitors_db \subseteq DOMAIN monitors_db'
        /\ Cardinality(DOMAIN monitors_db') =
             Cardinality(DOMAIN monitors_db)
               + (IF \E d \in Devices : Status(d) = "absent" /\ Status(d)' = "active"
                  THEN 1 ELSE 0)]_vars

(* both ids are registered, one monitor has gone down and the other has
   taken a heartbeat and is active *)
C29_Witness ==
  \E d, e \in Devices :
    /\ DOMAIN monitors_db = Devices
    /\ Status(d) = "down"
    /\ Status(e) = "active"
    /\ accepted[e] >= 1
    /\ list_monitors_result.resp.body.total = 2

(* C30 as stated: on the same store and the same request or expiry, main.py
   and the modules leave the same store, cancel and create the same
   countdowns, fire the same alerts and send the same response, whatever
   the request. *)
C30_MainSameResponses ==
  /\ \A id \in Devices : \A b \in Bodies :
       /\ main_create_monitor_result(id, b.timeout, b.alert_email)
            = create_monitor_result(id, b.timeout, b.alert_email)
       /\ main_http_response("create_monitor",
              main_create_monitor_result(id, b.timeout, b.alert_email), id)
            = http_response("create_monitor",
                create_monitor_result(id, b.timeout, b.alert_email), id)
  /\ \A d \in Devices :
       /\ main_heartbeat_result(d) = heartbeat_result(d)
       /\ main_pause_monitor_result(d) = pause_monitor_result(d)
       /\ main_expiry_steps(d) = expiry_steps(d)
       /\ main_http_response("heartbeat", main_heartbeat_result(d), d)
            = http_response("heartbeat", heartbeat_result(d), d)
       /\ main_http_response("pause_monitor", main_pause_monitor_result(d), d)
            = http_response("pause_monitor", pause_monitor_result(d), d)

(* C30: on the same store and the same request or expiry, main.py and the
   modules leave the same store, cancel and create the same countdowns, fire
   the same alerts with the same arguments, answer with the same status code
   for the same kind of outcome and, when the request is accepted, with the
   same body; started from the same empty store they therefore stay in step
   on every sequence of registrations, heartbeats, pauses and expiries. *)
C30_MainEquivalent ==
  /\ \A id \in Devices : \A b \in Bodies :
       LET m == main_create_monitor_result(id, b.timeout, b.alert_email)
           r == create_monitor_result(id, b.timeout, b.alert_email)
       IN /\ m = r
          /\ main_http_response("create_monitor", m, id).status_code
               = http_response("create_monitor", r, id).status_code
          /\ r.resp.code < 400 =>
               main_http_response("create_monitor", m, id)
                 = http_response("create_monitor", r, id)
  /\ \A d \in Devices :
       /\ main_heartbeat_result(d) = heartbeat_result(d)
       /\ main_pause_monitor_result(d) = pause_monitor_result(d)
       /\ main_expiry_steps(d) = expiry_steps(d)
       /\ main_http_response("heartbeat", main_heartbeat_result(d), d).status_code
            = http_response("heartbeat", heartbeat_result(d), d).status_code
       /\ main_http_response("pause_monitor", main_pause_monitor_result(d), d).status_code
            = http_response("pause_monitor", pause_monitor_result(d), d).status_code
       /\ heartbeat_result(d).resp.code < 400 =>
            main_http_response("heartbeat", main_heartbeat_result(d), d)
              = http_response("heartbeat", heartbeat_result(d), d)
       /\ pause_monitor_result(d).resp.code < 400 =>
            main_http_response("pause_monitor", main_pause_monitor_result(d), d)
              = http_response("pause_monitor", pause_monitor_result(d), d)

(* a monitor that is down, which both refuse, and an active one whose sleep
   has elapsed and whose expiry is about to run, with room for a countdown *)
C30_Witness ==
  \E d, e \in Devices :
    /\ Status(d) = "down"
    /\ Status(e) = "active"
    /\ tasks[active_tasks[e]].pc = "woken"
    /\ ~tasks[active_tasks[e]].cancel
    /\ Len(tasks) < MaxTasks

====
